---- MODULE Spec2Model ----
(***************************************************************************)
(* A model of the scenario facilities of openquake.commonlib.calc          *)
(* (add_dicts, gen_ruptures, calc_gmfs, run_scenario, calc_damage,         *)
(* calc_scenario) and of the seeding of the scenario hazard calculator     *)
(* (ScenarioHazardCalculator.task_arg_gen).                                *)
(*                                                                         *)
(* Python values are encoded as follows.                                   *)
(*   - a dict is a function whose DOMAIN is its key set;                   *)
(*   - a dict value is <<n>> for the number n and <<>> for None, so that   *)
(*     a number and None can be compared;                                  *)
(*   - a call that may raise returns [raised |-> BOOLEAN, val |-> dict].   *)
(***************************************************************************)
EXTENDS Integers, Sequences, FiniteSets, TLC

VARIABLES
    \* ---- add_dicts called on arbitrary ResultMaps (SpecMerge)
    mpc,        \* "idle", "start", "commuted", "done"
    A, B, C,    \* the three ResultMaps
    r_ab, r_ba, \* add_dicts(A, B), add_dicts(B, A)
    r_l, r_r,   \* add_dicts(add_dicts(A, B), C), add_dicts(A, add_dicts(B, C))
    \* ---- calc_damage / calc_scenario on the outputs of the risk model
    \*      (SpecDamage, SpecScenario)
    cpc,        \* "idle", "start", "done"
    outputs,    \* what riskmodel.gen_outputs(riskinputs) yields, in order
    result,     \* the outcome of the call
    \* ---- apply_reduce(calc, (risk_inputs, risk_model), agg=add_dicts, acc={})
    \*      (SpecReduce)
    rpc,        \* "idle", "start", "running", "done"
    calc,       \* "calc_damage" or "calc_scenario"
    ri_outputs, \* ri_outputs[i]: what the risk model yields for risk input i
    parts,      \* parts[i]: the partition risk input i is assigned to
    pending,    \* the partitions whose result is not merged yet
    order,      \* the partitions in the order their results were merged
    racc,       \* the accumulator
    \* ---- run_scenario(oqparam) (SpecRun)
    pc,             \* the statement run_scenario is at
    calculation_mode,   \* oqparam.calculation_mode
    sitecol,        \* the site collection, a sequence of sites
    assets_by_site, \* assets_by_site[i]: the assets at site i
    gmfs_by_imt,    \* IMT -> matrix, one row of ground motion values per site
    risk_inputs,    \* the list of RiskInput
    work,           \* the steps of the computation done so far, in order
    \* ---- gen_ruptures(sources, site_coll, maximum_distance, monitor)
    \*      (SpecRuptures)
    gpc,        \* "idle", "source", "iter_ruptures", "rupture", "done"
    sources,    \* the sequence of sources
    src_i,      \* the position of src in sources
    s_sites,    \* the sites left by the source filter, None if there are none
    ruptures,   \* list(src.iter_ruptures())
    rup_i,      \* the position of rupture in ruptures
    iterated,   \* the positions of the sources whose iter_ruptures was called
    yielded,    \* the records yielded so far, in order
    \* ---- the seeds of the realizations: task_arg_gen and the gmfs tasks of
    \*      the scenario hazard calculator, and calc_gmfs (SpecSeeds)
    spc,        \* "idle", "task_arg_gen", "calc_gmfs", "done"
    random_seed,    \* the configured random_seed
    n_gmfs,     \* number_of_ground_motion_fields
    rnd,        \* the state of rnd, the random.Random instance
    task_no,    \* the loop variable of task_arg_gen
    tasks,      \* the (task_seed, task_no) yielded or drawn so far, in order
    np_seed,    \* per worker process, the seed numpy.random was last given
    computed    \* task_no -> the seed in effect when its field was computed

mergeVars == <<mpc, A, B, C, r_ab, r_ba, r_l, r_r>>
calcVars == <<cpc, outputs, result>>
reduceVars == <<rpc, calc, ri_outputs, parts, pending, order, racc>>
runVars == <<pc, calculation_mode, sitecol, assets_by_site, gmfs_by_imt,
             risk_inputs, work>>
genVars == <<gpc, sources, src_i, s_sites, ruptures, rup_i, iterated, yielded>>
seedVars == <<spc, random_seed, n_gmfs, rnd, task_no, tasks, np_seed, computed>>

vars == <<mergeVars, calcVars, reduceVars, runVars, genVars, seedVars>>

(***************************************************************************)
(* Bounds of the model.                                                    *)
(***************************************************************************)
MaxVal == 1     \* dict values are the numbers 0..MaxVal (and None)
MaxOutputs == 2 \* the risk model yields at most MaxOutputs outputs per call
NumRiskInputs == 3  \* the length of the list of risk inputs that is reduced
NumSites == 2   \* the number of sites of the exposure
NumSources == 2 \* the number of sources given to gen_ruptures
MaxGmfs == 3    \* number_of_ground_motion_fields is at most MaxGmfs

(***************************************************************************)
(* Python values.                                                          *)
(***************************************************************************)
None == <<>>
Num(n) == <<n>>
IsNum(v) == v # None
EmptyDict == <<>>

Vals == 0..MaxVal
PyVals == {None} \cup {Num(n) : n \in Vals}

\* all dicts with keys in K and values in V
DictsOver(K, V) == UNION {[D -> V] : D \in SUBSET K}

(***************************************************************************)
(* add_dicts (calc.py 99-117).                                             *)
(*   new = acc.copy()                                                      *)
(*   for k, v in dic.iteritems():                                          *)
(*       if v is not None:                                                 *)
(*           new[k] = new.get(k, 0) + v                                    *)
(*   return new                                                            *)
(* Each key of dic is visited once and touches only new[k], so the loop    *)
(* is modelled key by key.                                                 *)
(***************************************************************************)

\* the keys of dic whose value is added (line 115)
AddedKeys(dic) == {k \in DOMAIN dic : IsNum(dic[k])}

\* new.get(k, 0) (line 116)
DictGet(d, k, default) == IF k \in DOMAIN d THEN d[k] ELSE Num(default)

\* None + v raises TypeError (line 116): acc holds None where dic holds a number
add_dicts_raises(acc, dic) ==
    \E k \in AddedKeys(dic) : ~IsNum(DictGet(acc, k, 0))

\* a faulty variant of add_dicts: the value of dic overwrites the accumulated one
add_dicts_overwrite(acc, dic) ==
    [k \in (DOMAIN acc) \cup AddedKeys(dic) |->
        IF k \in AddedKeys(dic) THEN dic[k] ELSE acc[k]]

\* the dict returned by add_dicts when it does not raise
add_dicts(acc, dic) ==
    [k \in (DOMAIN acc) \cup AddedKeys(dic) |->
        IF k \in AddedKeys(dic)
        THEN Num(DictGet(acc, k, 0)[1] + dic[k][1])
        ELSE acc[k]]

Raised == [raised |-> TRUE, val |-> EmptyDict]
Returned(d) == [raised |-> FALSE, val |-> d]

\* a call of add_dicts, the exception included
CallAddDicts(acc, dic) ==
    IF add_dicts_raises(acc, dic) THEN Raised ELSE Returned(add_dicts(acc, dic))

\* add_dicts applied to the outcomes of two earlier calls: an exception
\* raised while an argument is evaluated propagates
CallAddDicts2(x, y) ==
    IF x.raised \/ y.raised THEN Raised ELSE CallAddDicts(x.val, y.val)

(***************************************************************************)
(* SpecMerge: add_dicts on arbitrary ResultMaps A, B, C.                   *)
(***************************************************************************)
MergeKeys == {"x", "y"}
ResultMaps == DictsOver(MergeKeys, PyVals)

MergeIdle ==
    /\ mpc = "idle"
    /\ A = EmptyDict /\ B = EmptyDict /\ C = EmptyDict
    /\ r_ab = Raised /\ r_ba = Raised /\ r_l = Raised /\ r_r = Raised

CalcIdle ==
    /\ cpc = "idle"
    /\ outputs = <<>>
    /\ result = Raised

ReduceIdle ==
    /\ rpc = "idle"
    /\ calc = "none"
    /\ ri_outputs = <<>>
    /\ parts = <<>>
    /\ pending = {}
    /\ order = <<>>
    /\ racc = Raised

RunIdle ==
    /\ pc = "idle"
    /\ calculation_mode = "none"
    /\ sitecol = <<>>
    /\ assets_by_site = <<>>
    /\ gmfs_by_imt = <<>>
    /\ risk_inputs = <<>>
    /\ work = <<>>

GenIdle ==
    /\ gpc = "idle"
    /\ sources = <<>>
    /\ src_i = 0
    /\ s_sites = <<>>
    /\ ruptures = <<>>
    /\ rup_i = 0
    /\ iterated = {}
    /\ yielded = <<>>

SeedIdle ==
    /\ spc = "idle"
    /\ random_seed = 0
    /\ n_gmfs = 0
    /\ rnd = 0
    /\ task_no = 0
    /\ tasks = <<>>
    /\ np_seed = <<>>
    /\ computed = <<>>

InitMerge ==
    /\ mpc = "start"
    /\ A \in ResultMaps /\ B \in ResultMaps /\ C \in ResultMaps
    /\ r_ab = Raised /\ r_ba = Raised /\ r_l = Raised /\ r_r = Raised
    /\ CalcIdle
    /\ ReduceIdle
    /\ RunIdle
    /\ GenIdle
    /\ SeedIdle

\* add_dicts(A, B) and add_dicts(B, A)
MergeBothWays ==
    /\ mpc = "start"
    /\ r_ab' = CallAddDicts(A, B)
    /\ r_ba' = CallAddDicts(B, A)
    /\ mpc' = "commuted"
    /\ UNCHANGED <<A, B, C, r_l, r_r>>
    /\ UNCHANGED <<calcVars, reduceVars, runVars, genVars, seedVars>>

\* add_dicts(add_dicts(A, B), C) and add_dicts(A, add_dicts(B, C))
MergeBothGroupings ==
    /\ mpc = "commuted"
    /\ r_l' = CallAddDicts2(r_ab, Returned(C))
    /\ r_r' = CallAddDicts2(Returned(A), CallAddDicts(B, C))
    /\ mpc' = "done"
    /\ UNCHANGED <<A, B, C, r_ab, r_ba>>
    /\ UNCHANGED <<calcVars, reduceVars, runVars, genVars, seedVars>>

NextMerge == MergeBothWays \/ MergeBothGroupings

SpecMerge == InitMerge /\ [][NextMerge]_vars

\* C1: add_dicts is commutative: add_dicts(A, B) and add_dicts(B, A) both
\* succeed and return equal mappings.
C1_Commutative ==
    mpc \in {"commuted", "done"} =>
        /\ ~r_ab.raised
        /\ ~r_ba.raised
        /\ r_ab.val = r_ba.val

\* C2: add_dicts is associative: add_dicts(add_dicts(A, B), C) equals
\* add_dicts(A, add_dicts(B, C)).
C2_Associative ==
    mpc = "done" => r_l = r_r

\* C3: a None contributed by either side for a key is ignored: when one
\* argument holds None for k and the other a number v, the merge succeeds
\* and holds exactly v for k, whichever argument carries the None.
C3_NoneIgnored ==
    mpc \in {"commuted", "done"} =>
        \A k \in (DOMAIN A) \cap (DOMAIN B) :
            /\ (A[k] = None /\ IsNum(B[k])) =>
                   (~r_ab.raised /\ k \in DOMAIN r_ab.val /\ r_ab.val[k] = B[k])
            /\ (IsNum(A[k]) /\ B[k] = None) =>
                   (~r_ab.raised /\ k \in DOMAIN r_ab.val /\ r_ab.val[k] = A[k])

(***************************************************************************)
(* The outputs of the risk model.  riskmodel.gen_outputs is a generator of *)
(* (loss_type, out) pairs; the fragility functions give one fraction per   *)
(* asset, the vulnerability functions the aggregate losses and, only when  *)
(* insured losses are requested, the insured ones (None otherwise).        *)
(***************************************************************************)
LossTypes == {"structural", "contents"}

Asset(t, n) == [taxonomy |-> t, number |-> n]

\* the asset lists found at a site
AssetLists ==
    { <<>>,
      <<Asset("RC", 2)>>,
      <<Asset("RC", 1), Asset("WOOD", 3)>>,
      <<Asset("RC", 2), Asset("RC", 1)>> }

\* (loss_type, (assets, fractions)), one fraction per asset
DamageOutputs ==
    UNION {{[loss_type |-> lt, assets |-> al, fractions |-> fr] :
                lt \in LossTypes, fr \in [1..Len(al) -> Vals]} : al \in AssetLists}

\* (loss_type, (assets, loss_ratio_matrix, aggregate_losses,
\*              insured_loss_matrix, insured_losses))
ScenarioOutputs ==
    [loss_type : LossTypes,
     aggregate_losses : {Num(n) : n \in Vals},
     insured_losses : PyVals]

SeqsUpTo(S, n) == UNION {[1..m -> S] : m \in 0..n}

Min(a, b) == IF a < b THEN a ELSE b

(***************************************************************************)
(* calc_damage (calc.py 218-229).                                          *)
(***************************************************************************)

\* a faulty variant of DamageDict: the number of the asset is left out
DamageDictNoNumber(asset, fraction) ==
    [k \in {asset.taxonomy} |-> Num(fraction)]

\* {asset.taxonomy: fraction * asset.number} (line 228)
DamageDict(asset, fraction) ==
    [k \in {asset.taxonomy} |-> Num(fraction * asset.number)]

\* for asset, fraction in zip(assets, fractions): result = add_dicts(...)
RECURSIVE damage_zip(_, _, _, _)
damage_zip(res, assets, fractions, i) ==
    IF i > Min(Len(assets), Len(fractions)) THEN res
    ELSE damage_zip(
            CallAddDicts2(res, Returned(DamageDict(assets[i], fractions[i]))),
            assets, fractions, i + 1)

\* for loss_type, (assets, fractions) in riskmodel.gen_outputs(riskinputs)
RECURSIVE damage_loop(_, _, _)
damage_loop(res, outs, o) ==
    IF o > Len(outs) THEN res
    ELSE damage_loop(damage_zip(res, outs[o].assets, outs[o].fractions, 1),
                     outs, o + 1)

calc_damage(outs) == damage_loop(Returned(EmptyDict), outs, 1)

(***************************************************************************)
(* calc_scenario (calc.py 232-246).                                        *)
(***************************************************************************)

\* a faulty variant of ScenarioDict: the insured losses are dropped
ScenarioDictOneKey(out) ==
    [k \in {<<"agg", out.loss_type>>} |-> out.aggregate_losses]

\* {('agg', loss_type): aggregate_losses, ('ins', loss_type): insured_losses}
ScenarioDict(out) ==
    [k \in {<<"agg", out.loss_type>>, <<"ins", out.loss_type>>} |->
        IF k[1] = "agg" THEN out.aggregate_losses ELSE out.insured_losses]

RECURSIVE scenario_loop(_, _, _)
scenario_loop(res, outs, o) ==
    IF o > Len(outs) THEN res
    ELSE scenario_loop(CallAddDicts2(res, Returned(ScenarioDict(outs[o]))),
                       outs, o + 1)

calc_scenario(outs) == scenario_loop(Returned(EmptyDict), outs, 1)

(***************************************************************************)
(* SpecDamage and SpecScenario: one call of the calculation function on    *)
(* any sequence of outputs of the risk model.                              *)
(***************************************************************************)
InitDamage ==
    /\ cpc = "start"
    /\ outputs \in SeqsUpTo(DamageOutputs, MaxOutputs)
    /\ result = Raised
    /\ MergeIdle
    /\ ReduceIdle
    /\ RunIdle
    /\ GenIdle
    /\ SeedIdle

CallCalcDamage ==
    /\ cpc = "start"
    /\ result' = calc_damage(outputs)
    /\ cpc' = "done"
    /\ UNCHANGED outputs
    /\ UNCHANGED <<mergeVars, reduceVars, runVars, genVars, seedVars>>

NextDamage == CallCalcDamage

SpecDamage == InitDamage /\ [][NextDamage]_vars

InitScenario ==
    /\ cpc = "start"
    /\ outputs \in SeqsUpTo(ScenarioOutputs, MaxOutputs)
    /\ result = Raised
    /\ MergeIdle
    /\ ReduceIdle
    /\ RunIdle
    /\ GenIdle
    /\ SeedIdle

CallCalcScenario ==
    /\ cpc = "start"
    /\ result' = calc_scenario(outputs)
    /\ cpc' = "done"
    /\ UNCHANGED outputs
    /\ UNCHANGED <<mergeVars, reduceVars, runVars, genVars, seedVars>>

NextScenario == CallCalcScenario

SpecScenario == InitScenario /\ [][NextScenario]_vars

\* the sum of f over the finite set S
RECURSIVE SumOver(_, _)
SumOver(f, S) ==
    IF S = {} THEN 0
    ELSE LET x == CHOOSE y \in S : TRUE IN f[x] + SumOver(f, S \ {x})

\* the (output, asset) positions of the outputs
AssetPositions ==
    UNION {{<<o, i>> : i \in 1..Len(outputs[o].assets)} : o \in 1..Len(outputs)}

PositionsOf(t) == {p \in AssetPositions : outputs[p[1]].assets[p[2]].taxonomy = t}

\* C6: calc_damage returns a ResultMap whose keys are exactly the taxonomies
\* of the assets of the outputs and whose value for a taxonomy is the sum,
\* over every asset of the taxonomy in every output (whatever its loss
\* type), of fraction * asset.number.
C6_DamageSums ==
    cpc = "done" =>
        /\ ~result.raised
        /\ DOMAIN result.val =
               {outputs[p[1]].assets[p[2]].taxonomy : p \in AssetPositions}
        /\ \A t \in DOMAIN result.val :
               result.val[t] =
                   Num(SumOver([p \in PositionsOf(t) |->
                                   outputs[p[1]].fractions[p[2]]
                                       * outputs[p[1]].assets[p[2]].number],
                               PositionsOf(t)))

\* C6 witness: two outputs of different loss types share a taxonomy, a
\* second taxonomy is present, and the sums are not all zero.
C6_Witness ==
    /\ cpc = "done"
    /\ Len(outputs) = 2
    /\ outputs[1].loss_type # outputs[2].loss_type
    /\ DOMAIN result.val = {"RC", "WOOD"}
    /\ result.val["RC"] = Num(3)
    /\ result.val["WOOD"] = Num(3)

\* the outputs of loss type lt, and those among them with insured losses
OutputsOf(lt) == {o \in 1..Len(outputs) : outputs[o].loss_type = lt}
InsuredOf(lt) == {o \in OutputsOf(lt) : IsNum(outputs[o].insured_losses)}
SeenLossTypes == {outputs[o].loss_type : o \in 1..Len(outputs)}

AggSum(lt) ==
    SumOver([o \in OutputsOf(lt) |-> outputs[o].aggregate_losses[1]], OutputsOf(lt))
InsSum(lt) ==
    SumOver([o \in InsuredOf(lt) |-> outputs[o].insured_losses[1]], InsuredOf(lt))

\* C7 as stated: for every loss type of the outputs the result holds exactly
\* the two keys ('agg', lt) and ('ins', lt), with the sums of the aggregate
\* and of the insured losses of that loss type.
C7_TwoKeysPerLossType ==
    cpc = "done" =>
        /\ ~result.raised
        /\ DOMAIN result.val =
               {<<"agg", lt>> : lt \in SeenLossTypes}
                   \cup {<<"ins", lt>> : lt \in SeenLossTypes}
        /\ \A k \in DOMAIN result.val :
               result.val[k] =
                   IF k[1] = "agg" THEN Num(AggSum(k[2])) ELSE Num(InsSum(k[2]))

\* C7 amended: the result holds ('agg', lt) for every loss type of the
\* outputs and ('ins', lt) for exactly those loss types of which some output
\* carries insured losses that are not None; the values are the sums of the
\* aggregate losses and of the insured losses that are not None.
C7_KeysOfNumericLosses ==
    cpc = "done" =>
        /\ ~result.raised
        /\ DOMAIN result.val =
               {<<"agg", lt>> : lt \in SeenLossTypes}
                   \cup {<<"ins", lt>> : lt \in {l \in SeenLossTypes : InsuredOf(l) # {}}}
        /\ \A k \in DOMAIN result.val :
               result.val[k] =
                   IF k[1] = "agg" THEN Num(AggSum(k[2])) ELSE Num(InsSum(k[2]))

\* C7 witness: two outputs of one loss type, the first without insured
\* losses, the second with insured losses.
C7_Witness ==
    /\ cpc = "done"
    /\ Len(outputs) = 2
    /\ outputs[1].loss_type = outputs[2].loss_type
    /\ outputs[1].insured_losses = None
    /\ outputs[2].insured_losses = Num(1)
    /\ result.val = [k \in {<<"agg", outputs[1].loss_type>>,
                            <<"ins", outputs[1].loss_type>>} |->
                        IF k[1] = "agg" THEN Num(2) ELSE Num(1)]

(***************************************************************************)
(* The reduction of run_scenario (calc.py 212-215):                        *)
(*   apply_reduce(calc, (risk_inputs, risk_model), agg=add_dicts, acc={},  *)
(*                key=lambda ri: ri.imt, weight=lambda ri: ri.weight)      *)
(* apply_reduce (openquake.commonlib.parallel) splits the list of risk     *)
(* inputs into partitions, calls calc(partition, risk_model) on each and   *)
(* merges the results into acc with agg as the calls complete.             *)
(***************************************************************************)
DOut(lt, al, fr) == [loss_type |-> lt, assets |-> al, fractions |-> fr]
SOut(lt, agg, ins) ==
    [loss_type |-> lt, aggregate_losses |-> agg, insured_losses |-> ins]

\* what the risk model may yield for one risk input, per calculation mode
RIDamageOutputs ==
    { <<>>,
      <<DOut("structural", <<Asset("RC", 2)>>, <<1>>)>>,
      <<DOut("structural", <<Asset("RC", 1), Asset("WOOD", 3)>>, <<1, MaxVal>>),
        DOut("contents", <<Asset("RC", 1), Asset("WOOD", 3)>>, <<0, 1>>)>>,
      <<DOut("contents", <<Asset("RC", 2), Asset("RC", 1)>>, <<MaxVal, 1>>)>> }

RIScenarioOutputs ==
    { <<>>,
      <<SOut("structural", Num(1), None)>>,
      <<SOut("structural", Num(MaxVal), Num(1)), SOut("contents", Num(1), None)>>,
      <<SOut("contents", Num(0), Num(MaxVal))>> }

\* riskmodel.gen_outputs(riskinputs): the outputs of each risk input of the
\* list, in the order of the list
RECURSIVE gen_outputs(_, _)
gen_outputs(model, riskinputs) ==
    IF riskinputs = <<>> THEN <<>>
    ELSE model[Head(riskinputs)] \o gen_outputs(model, Tail(riskinputs))

\* the calculation function run_scenario selected (lines 201-209)
CalcFunction(c, riskinputs, model) ==
    IF c = "calc_damage" THEN calc_damage(gen_outputs(model, riskinputs))
    ELSE calc_scenario(gen_outputs(model, riskinputs))

\* the risk inputs of partition p, in the order of the list
PartitionOf(p) == SelectSeq([i \in 1..NumRiskInputs |-> i], LAMBDA i : parts[i] = p)

\* the assignments of the risk inputs to 1, 2, ..., N non-empty partitions
Splits ==
    {f \in [1..NumRiskInputs -> 1..NumRiskInputs] :
        \E n \in 1..NumRiskInputs : {f[i] : i \in 1..NumRiskInputs} = 1..n}

InitReduce ==
    /\ rpc = "start"
    /\ calc \in {"calc_damage", "calc_scenario"}
    /\ ri_outputs \in [1..NumRiskInputs ->
                          IF calc = "calc_damage" THEN RIDamageOutputs
                          ELSE RIScenarioOutputs]
    /\ parts = <<>>
    /\ pending = {}
    /\ order = <<>>
    /\ racc = Returned(EmptyDict)
    /\ MergeIdle
    /\ CalcIdle
    /\ RunIdle
    /\ GenIdle
    /\ SeedIdle

\* apply_reduce splits the list and starts one call per partition
Split ==
    /\ rpc = "start"
    /\ parts' \in Splits
    /\ pending' = {parts'[i] : i \in 1..NumRiskInputs}
    /\ rpc' = "running"
    /\ UNCHANGED <<calc, ri_outputs, order, racc>>
    /\ UNCHANGED <<mergeVars, calcVars, runVars, genVars, seedVars>>

\* the call on partition p completes and its result is merged:
\* acc = agg(acc, calc(partition, risk_model))
Complete(p) ==
    /\ rpc = "running"
    /\ p \in pending
    /\ racc' = CallAddDicts2(racc, CalcFunction(calc, PartitionOf(p), ri_outputs))
    /\ pending' = pending \ {p}
    /\ order' = Append(order, p)
    /\ rpc' = IF pending' = {} THEN "done" ELSE "running"
    /\ UNCHANGED <<calc, ri_outputs, parts>>
    /\ UNCHANGED <<mergeVars, calcVars, runVars, genVars, seedVars>>

NextReduce == Split \/ \E p \in 1..NumRiskInputs : Complete(p)

SpecReduce == InitReduce /\ [][NextReduce]_vars

\* the whole list as a single partition
WholeList == [i \in 1..NumRiskInputs |-> i]
SinglePartitionResult ==
    CallAddDicts2(Returned(EmptyDict), CalcFunction(calc, WholeList, ri_outputs))

CalculationModes == {"scenario_risk", "scenario_damage", "unknown_mode"}

IMTs == {"PGA", "SA(0.1)"}

\* the identity of the site at position i of the site collection
SiteAt(i) == [id |-> 100 + NumSites - i]

\* the rows of a GMF matrix: the ground motion values of one site, one per
\* realization; a row of zeros only is a trivial ground motion vector
GmvRows == {<<0, 0>>, <<0, 1>>, <<1, 1>>}
Trivial(gmvs) == \A j \in 1..Len(gmvs) : gmvs[j] = 0

\* the asset lists get_sitecol_assets may associate to a site
SiteAssetLists ==
    {<<>>, <<Asset("RC", 2)>>, <<Asset("RC", 1), Asset("WOOD", 3)>>}

\* workflows.RiskInput(imt, site.id, gmvs, assets)
RiskInput(imt, site_id, gmvs, assets) ==
    [imt |-> imt, site_id |-> site_id, gmvs |-> gmvs, assets |-> assets]

Min3(a, b, c) == Min(a, Min(b, c))

\* a faulty variant of SiteRiskInputs: sites with a trivial ground motion vector
\* give no risk input
SiteRiskInputsSkipTrivial(imt, sites, assets, gmf, i) ==
    LET RECURSIVE go(_)
        go(j) == IF j > Min3(Len(sites), Len(assets), Len(gmf)) THEN <<>>
                 ELSE (IF Trivial(gmf[j]) THEN <<>>
                       ELSE <<RiskInput(imt, sites[j].id, gmf[j], assets[j])>>)
                      \o go(j + 1)
    IN go(i)

\* for site, assets, gmvs in zip(sitecol, assets_by_site, gmfs_by_imt[imt]):
\*     risk_inputs.append(workflows.RiskInput(imt, site.id, gmvs, assets))
\* (lines 196-199), from position i on
SiteRiskInputs(imt, sites, assets, gmf, i) ==
    LET RECURSIVE go(_)
        go(j) == IF j > Min3(Len(sites), Len(assets), Len(gmf)) THEN <<>>
                 ELSE <<RiskInput(imt, sites[j].id, gmf[j], assets[j])>>
                      \o go(j + 1)
    IN go(i)

\* for imt in gmfs_by_imt: ... (line 195), imts being the keys of the dict in
\* the order the dict iterates them
RECURSIVE AllRiskInputs(_, _, _, _)
AllRiskInputs(imts, sites, assets, gmfs) ==
    IF imts = <<>> THEN <<>>
    ELSE SiteRiskInputs(Head(imts), sites, assets, gmfs[Head(imts)], 1)
         \o AllRiskInputs(Tail(imts), sites, assets, gmfs)

\* the orders in which a dict may iterate the keys K
KeyOrders(K) ==
    {s \in [1..Cardinality(K) -> K] : {s[i] : i \in 1..Cardinality(K)} = K}

InitRun ==
    /\ pc = "get_sitecol_assets"
    /\ calculation_mode \in CalculationModes
    /\ sitecol = <<>>
    /\ assets_by_site = <<>>
    /\ gmfs_by_imt = <<>>
    /\ risk_inputs = <<>>
    /\ work = <<>>
    /\ MergeIdle
    /\ CalcIdle
    /\ ReduceIdle
    /\ GenIdle
    /\ SeedIdle

\* sitecol, assets_by_site = get_sitecol_assets(oqparam)  (line 187)
ReadExposure ==
    /\ pc = "get_sitecol_assets"
    /\ sitecol' = [i \in 1..NumSites |-> SiteAt(i)]
    /\ assets_by_site' \in [1..NumSites -> SiteAssetLists]
    /\ pc' = "calc_gmfs"
    /\ UNCHANGED <<calculation_mode, gmfs_by_imt, risk_inputs, work>>
    /\ UNCHANGED <<mergeVars, calcVars, reduceVars, genVars, seedVars>>

\* gmfs_by_imt = calc_gmfs(oqparam, sitecol)  (line 190): one matrix per IMT,
\* one row per site
ComputeGmfs ==
    /\ pc = "calc_gmfs"
    /\ gmfs_by_imt' \in [IMTs -> [1..Len(sitecol) -> GmvRows]]
    /\ work' = Append(work, "calc_gmfs")
    /\ pc' = "get_risk_model"
    /\ UNCHANGED <<calculation_mode, sitecol, assets_by_site, risk_inputs>>
    /\ UNCHANGED <<mergeVars, calcVars, reduceVars, genVars, seedVars>>

\* risk_model = get_risk_model(oqparam)  (line 193)
LoadRiskModel ==
    /\ pc = "get_risk_model"
    /\ work' = Append(work, "get_risk_model")
    /\ pc' = "risk_inputs"
    /\ UNCHANGED <<calculation_mode, sitecol, assets_by_site, gmfs_by_imt,
                   risk_inputs>>
    /\ UNCHANGED <<mergeVars, calcVars, reduceVars, genVars, seedVars>>

\* the loops that build risk_inputs  (lines 194-199)
AssembleRiskInputs ==
    /\ pc = "risk_inputs"
    /\ \E imts \in KeyOrders(DOMAIN gmfs_by_imt) :
          risk_inputs' = AllRiskInputs(imts, sitecol, assets_by_site, gmfs_by_imt)
    /\ work' = Append(work, "risk_inputs")
    /\ pc' = "calculation_mode"
    /\ UNCHANGED <<calculation_mode, sitecol, assets_by_site, gmfs_by_imt>>
    /\ UNCHANGED <<mergeVars, calcVars, reduceVars, genVars, seedVars>>

\* if oqparam.calculation_mode == 'scenario_risk': add_epsilons(...)
\* (lines 201-207)
SelectRisk ==
    /\ pc = "calculation_mode"
    /\ calculation_mode = "scenario_risk"
    /\ work' = Append(work, "add_epsilons")
    /\ pc' = "apply_reduce"
    /\ UNCHANGED <<calculation_mode, sitecol, assets_by_site, gmfs_by_imt,
                   risk_inputs>>
    /\ UNCHANGED <<mergeVars, calcVars, reduceVars, genVars, seedVars>>

\* elif oqparam.calculation_mode == 'scenario_damage'  (lines 208-209)
SelectDamage ==
    /\ pc = "calculation_mode"
    /\ calculation_mode = "scenario_damage"
    /\ pc' = "apply_reduce"
    /\ UNCHANGED <<calculation_mode, sitecol, assets_by_site, gmfs_by_imt,
                   risk_inputs, work>>
    /\ UNCHANGED <<mergeVars, calcVars, reduceVars, genVars, seedVars>>

\* else: raise NotImplementedError  (lines 210-211)
RaiseNotImplemented ==
    /\ pc = "calculation_mode"
    /\ calculation_mode \notin {"scenario_risk", "scenario_damage"}
    /\ pc' = "raised"
    /\ UNCHANGED <<calculation_mode, sitecol, assets_by_site, gmfs_by_imt,
                   risk_inputs, work>>
    /\ UNCHANGED <<mergeVars, calcVars, reduceVars, genVars, seedVars>>

\* return apply_reduce(calc, (risk_inputs, risk_model), ...)  (lines 212-215);
\* the reduction itself is the subject of SpecReduce
Reduce ==
    /\ pc = "apply_reduce"
    /\ work' = Append(work, "apply_reduce")
    /\ pc' = "returned"
    /\ UNCHANGED <<calculation_mode, sitecol, assets_by_site, gmfs_by_imt,
                   risk_inputs>>
    /\ UNCHANGED <<mergeVars, calcVars, reduceVars, genVars, seedVars>>

NextRun ==
    \/ ReadExposure
    \/ ComputeGmfs
    \/ LoadRiskModel
    \/ AssembleRiskInputs
    \/ SelectRisk
    \/ SelectDamage
    \/ RaiseNotImplemented
    \/ Reduce

SpecRun == InitRun /\ [][NextRun]_vars

\* C5: with a calculation_mode that is neither 'scenario_risk' nor
\* 'scenario_damage' the error is raised before any simulation work: no GMF
\* computation, no loading of the risk model, no assembly of risk inputs, no
\* epsilon sampling and no reduction has happened when it is raised.
C5_ErrorBeforeWork ==
    pc = "raised" => work = <<>>

Assembled == pc \in {"calculation_mode", "apply_reduce", "returned", "raised"}

\* the positions of risk_inputs that hold the risk input of (site i, imt)
InputsOf(i, imt) ==
    {j \in 1..Len(risk_inputs) :
        risk_inputs[j].imt = imt /\ risk_inputs[j].site_id = sitecol[i].id}

SitePositions == 1..Len(sitecol)

\* C9 as stated: there is a RiskInput for a (site, IMT) pair only where the
\* row of that site in the GMF matrix of that IMT is non-trivial, and then
\* exactly one, carrying the IMT, the identity of site i, row i of the matrix
\* and the assets at position i.
C9_OnlyNonTrivialRows ==
    Assembled =>
        \A imt \in DOMAIN gmfs_by_imt : \A i \in SitePositions :
            /\ Cardinality(InputsOf(i, imt)) =
                   (IF Trivial(gmfs_by_imt[imt][i]) THEN 0 ELSE 1)
            /\ \A j \in InputsOf(i, imt) :
                   /\ risk_inputs[j].gmvs = gmfs_by_imt[imt][i]
                   /\ risk_inputs[j].assets = assets_by_site[i]

\* C9 amended: there is exactly one RiskInput for every (site, IMT) pair,
\* whether or not the row of the site in the GMF matrix of the IMT is
\* trivial; it carries the IMT, the identity of site i, row i of the matrix
\* and the assets at position i, and risk_inputs holds nothing else.
C9_OnePerSiteAndImt ==
    Assembled =>
        /\ Len(risk_inputs) = Len(sitecol) * Cardinality(DOMAIN gmfs_by_imt)
        /\ \A imt \in DOMAIN gmfs_by_imt : \A i \in SitePositions :
               /\ Cardinality(InputsOf(i, imt)) = 1
               /\ \A j \in InputsOf(i, imt) :
                      /\ risk_inputs[j].gmvs = gmfs_by_imt[imt][i]
                      /\ risk_inputs[j].assets = assets_by_site[i]

\* C9 witness: the risk inputs are assembled from matrices with a trivial
\* and a non-trivial row and from sites with different assets.
C9_Witness ==
    /\ Assembled
    /\ Len(risk_inputs) = 2 * NumSites
    /\ \E j \in 1..Len(risk_inputs) : Trivial(risk_inputs[j].gmvs)
    /\ \E j \in 1..Len(risk_inputs) : ~Trivial(risk_inputs[j].gmvs)
    /\ assets_by_site[1] # assets_by_site[2]
    /\ gmfs_by_imt["PGA"] # gmfs_by_imt["SA(0.1)"]

(***************************************************************************)
(* gen_ruptures (calc.py 44-78), a generator: one action per step of its   *)
(* loops.  A source is [close, ruptures]: the sites within                 *)
(* maximum_distance of the source and the ruptures iter_ruptures gives;    *)
(* a rupture is [close], the sites within maximum_distance of it.  The     *)
(* two filters of hazardlib keep the sites of their argument that are      *)
(* close, in the order of the argument, and return None when none is.      *)
(***************************************************************************)
site_coll == <<1, 2>>

SourceCloseSets == {{}, {1}, {1, 2}}

Rupture(close) == [close |-> close]

RuptureLists ==
    { <<>>,
      <<Rupture({1})>>,
      <<Rupture({2})>>,
      <<Rupture({2}), Rupture({1, 2})>>,
      <<Rupture({1, 2}), Rupture({1})>> }

Sources == [close : SourceCloseSets, ruptures : RuptureLists]

\* src.filter_sites_by_distance_to_source(maximum_distance, site_coll)
filter_sites_by_distance_to_source(src, sites) ==
    SelectSeq(sites, LAMBDA s : s \in src.close)

\* filters.filter_sites_by_distance_to_rupture(rupture, maximum_distance, sites)
filter_sites_by_distance_to_rupture(rupture, sites) ==
    SelectSeq(sites, LAMBDA s : s \in rupture.close)

\* a faulty variant of RuptureSites: the rupture is filtered against the whole site
\* collection
RuptureSitesOfAll(rupture, all_sites, source_sites) ==
    filter_sites_by_distance_to_rupture(rupture, all_sites)

\* r_sites = filters.filter_sites_by_distance_to_rupture(
\*     rupture, maximum_distance, s_sites)  (lines 71-72)
RuptureSites(rupture, all_sites, source_sites) ==
    filter_sites_by_distance_to_rupture(rupture, source_sites)

\* SourceRuptureSites(src, rupture, r_sites), the source and the rupture
\* named by their positions
SourceRuptureSites(s, r, sites) == [source |-> s, rupture |-> r, sites |-> sites]

InitRuptures ==
    /\ gpc = "source"
    /\ sources \in [1..NumSources -> Sources]
    /\ src_i = 1
    /\ s_sites = None
    /\ ruptures = <<>>
    /\ rup_i = 0
    /\ iterated = {}
    /\ yielded = <<>>
    /\ MergeIdle
    /\ CalcIdle
    /\ ReduceIdle
    /\ RunIdle
    /\ SeedIdle

\* for src in sources: s_sites = src.filter_sites_by_distance_to_source(...);
\* if s_sites is None: continue  (lines 57-62)
FilterSource ==
    /\ gpc = "source"
    /\ src_i <= Len(sources)
    /\ s_sites' = filter_sites_by_distance_to_source(sources[src_i], site_coll)
    /\ IF s_sites' = None
       THEN /\ src_i' = src_i + 1
            /\ gpc' = "source"
       ELSE /\ src_i' = src_i
            /\ gpc' = "iter_ruptures"
    /\ UNCHANGED <<sources, ruptures, rup_i, iterated, yielded>>
    /\ UNCHANGED <<mergeVars, calcVars, reduceVars, runVars, seedVars>>

\* ruptures = list(src.iter_ruptures()); if not ruptures: continue
\* (lines 64-67)
IterRuptures ==
    /\ gpc = "iter_ruptures"
    /\ iterated' = iterated \cup {src_i}
    /\ ruptures' = sources[src_i].ruptures
    /\ IF ruptures' = <<>>
       THEN /\ src_i' = src_i + 1
            /\ rup_i' = 0
            /\ gpc' = "source"
       ELSE /\ src_i' = src_i
            /\ rup_i' = 1
            /\ gpc' = "rupture"
    /\ UNCHANGED <<sources, s_sites, yielded>>
    /\ UNCHANGED <<mergeVars, calcVars, reduceVars, runVars, seedVars>>

\* for rupture in ruptures: r_sites = ...; if r_sites is None: continue;
\* yield SourceRuptureSites(src, rupture, r_sites)  (lines 69-75)
FilterRupture ==
    /\ gpc = "rupture"
    /\ LET r_sites == RuptureSites(ruptures[rup_i], site_coll, s_sites)
       IN yielded' = IF r_sites = None THEN yielded
                     ELSE Append(yielded, SourceRuptureSites(src_i, rup_i, r_sites))
    /\ IF rup_i < Len(ruptures)
       THEN /\ rup_i' = rup_i + 1
            /\ src_i' = src_i
            /\ gpc' = "rupture"
       ELSE /\ rup_i' = 0
            /\ src_i' = src_i + 1
            /\ gpc' = "source"
    /\ UNCHANGED <<sources, s_sites, ruptures, iterated>>
    /\ UNCHANGED <<mergeVars, calcVars, reduceVars, runVars, seedVars>>

\* the sources are exhausted: the monitors are flushed  (lines 76-78)
Exhausted ==
    /\ gpc = "source"
    /\ src_i > Len(sources)
    /\ gpc' = "done"
    /\ UNCHANGED <<sources, src_i, s_sites, ruptures, rup_i, iterated, yielded>>
    /\ UNCHANGED <<mergeVars, calcVars, reduceVars, runVars, seedVars>>

NextRuptures == FilterSource \/ IterRuptures \/ FilterRupture \/ Exhausted

SpecRuptures == InitRuptures /\ [][NextRuptures]_vars

\* the sites of the collection close to source s, and those of them close
\* to its rupture r
CloseToSource(s) == {x \in 1..Len(site_coll) : site_coll[x] \in sources[s].close}
CloseToBoth(s, r) ==
    {x \in CloseToSource(s) : site_coll[x] \in sources[s].ruptures[r].close}

\* the sites at the positions X of the collection, in its order
RECURSIVE SitesAt(_, _)
SitesAt(X, from) ==
    IF from > Len(site_coll) THEN <<>>
    ELSE (IF from \in X THEN <<site_coll[from]>> ELSE <<>>) \o SitesAt(X, from + 1)

\* the (source, rupture) pairs that affect a site
Affecting ==
    {p \in UNION {{<<s, r>> : r \in 1..Len(sources[s].ruptures)} :
                      s \in 1..Len(sources)} :
        CloseToBoth(p[1], p[2]) # {}}

Before(p, q) == p[1] < q[1] \/ (p[1] = q[1] /\ p[2] < q[2])

\* the source gen_ruptures is at has got as far as pair p
Passed(p) ==
    \/ gpc = "done"
    \/ p[1] < src_i
    \/ (p[1] = src_i /\ gpc = "rupture" /\ p[2] < rup_i)

\* C8: a source none of whose sites passes the source filter is never asked
\* for its ruptures and yields nothing; the ruptures of the other sources
\* are filtered against the sites the source filter left, the ruptures left
\* without a site are skipped, and the records come in the order of the
\* sources and, within a source, of its ruptures.
C8_TwoFiltersInOrder ==
    /\ \A s \in 1..Len(sources) :
           CloseToSource(s) = {} =>
               /\ s \notin iterated
               /\ \A j \in 1..Len(yielded) : yielded[j].source # s
    /\ \A j \in 1..Len(yielded) :
           /\ <<yielded[j].source, yielded[j].rupture>> \in Affecting
           /\ yielded[j].sites =
                  SitesAt(CloseToBoth(yielded[j].source, yielded[j].rupture), 1)
    /\ \A j, k \in 1..Len(yielded) :
           j < k => Before(<<yielded[j].source, yielded[j].rupture>>,
                           <<yielded[k].source, yielded[k].rupture>>)
    /\ \A p \in Affecting :
           Passed(p) =>
               \E j \in 1..Len(yielded) :
                   yielded[j].source = p[1] /\ yielded[j].rupture = p[2]

\* C8 witness: the generator is exhausted after a source without a close
\* site, a rupture without a site among those of its source, and a rupture
\* that keeps only some of the sites close to it.
C8_Witness ==
    /\ gpc = "done"
    /\ \E s \in 1..Len(sources) :
           CloseToSource(s) = {} /\ sources[s].ruptures # <<>>
    /\ \E s \in iterated : \E r \in 1..Len(sources[s].ruptures) :
           /\ CloseToBoth(s, r) = {}
           /\ sources[s].ruptures[r].close # {}
    /\ \E j \in 1..Len(yielded) :
           Len(yielded[j].sites) <
               Cardinality(sources[yielded[j].source].ruptures[yielded[j].rupture].close)
    /\ Len(yielded) >= 1

(***************************************************************************)
(* The seeds of the realizations.                                          *)
(*   ScenarioHazardCalculator.task_arg_gen (core.py 177-199) and the gmfs  *)
(*   task (core.py 50-64); calc_gmfs (calc.py 140-159).                    *)
(* random.Random is a deterministic generator: seed(x) sets its state from *)
(* x alone and each randint advances the state once.  It is modelled by a  *)
(* linear congruential generator whose output is scaled to 31 bits.        *)
(***************************************************************************)

\* openquake.job.validation.MAX_SINT_32, imported at core.py 37
MAX_SINT_32 == 2147483647

\* 2 ** 31 - 1  (calc.py 154)
MaxSeedOfCalcGmfs == 2147483647

\* rnd.seed(x)
RngSeed(x) == x % 65537

\* the state after one draw
RngNext(state) == (state * 75 + 74) % 65537

\* the 31 bits a draw gives
RngBits(state) == RngNext(state) * 32767

\* rnd.randint(lo, hi), a draw mapped into lo..hi
RngRandint(state, lo, hi) ==
    IF RngBits(state) <= hi - lo THEN lo + RngBits(state)
    ELSE lo + (RngBits(state) % (hi - lo + 1))

\* a faulty variant of Draw: the generator is created anew for every draw
DrawFromNewRng(state, lo, hi) ==
    [value |-> RngRandint(state, lo, hi), state |-> state]

\* one rnd.randint(lo, hi): the value and the state of rnd after it
Draw(state, lo, hi) ==
    [value |-> RngRandint(state, lo, hi), state |-> RngNext(state)]

\* getattr(oqparam, 'random_seed', 42), getattr(oqparam,
\* 'number_of_ground_motion_fields', 1): a missing parameter is -1 here
RandomSeedOf(configured) == IF configured = -1 THEN 42 ELSE configured
NumGmfsOf(configured) == IF configured = -1 THEN 1 ELSE configured

ConfiguredSeeds == {-1, 0, 7, 42}
Workers == {"w1", "w2"}

\* seeds = [rnd.randint(0, 2 ** 31 - 1) for _ in xrange(n_gmfs)]  (line 154),
\* as the tasks (seed, position) from position k on
RECURSIVE SeedList(_, _, _)
SeedList(state, k, n) ==
    IF k >= n THEN <<>>
    ELSE LET d == Draw(state, 0, MaxSeedOfCalcGmfs)
         IN <<[task_seed |-> d.value, task_no |-> k]>> \o SeedList(d.state, k + 1, n)

InitSeeds ==
    /\ spc \in {"task_arg_gen", "calc_gmfs"}
    /\ random_seed \in ConfiguredSeeds
    /\ n_gmfs \in (0..MaxGmfs) \cup {-1}
    /\ (spc = "task_arg_gen") => (random_seed # -1 /\ n_gmfs # -1)
    /\ rnd = RngSeed(RandomSeedOf(random_seed))
    /\ task_no = 0
    /\ tasks = <<>>
    /\ np_seed = [w \in Workers |-> -1]
    /\ computed = <<>>
    /\ MergeIdle
    /\ CalcIdle
    /\ ReduceIdle
    /\ RunIdle
    /\ GenIdle

\* for task_no in range(self.hc.number_of_ground_motion_fields):
\*     task_seed = rnd.randint(0, MAX_SINT_32); yield task_args
\* (core.py 195-199)
YieldTask ==
    /\ spc = "task_arg_gen"
    /\ task_no < n_gmfs
    /\ LET d == Draw(rnd, 0, MAX_SINT_32)
       IN /\ tasks' = Append(tasks, [task_seed |-> d.value, task_no |-> task_no])
          /\ rnd' = d.state
    /\ task_no' = task_no + 1
    /\ UNCHANGED <<spc, random_seed, n_gmfs, np_seed, computed>>
    /\ UNCHANGED <<mergeVars, calcVars, reduceVars, runVars, genVars>>

\* the range is exhausted: task_arg_gen returns
TaskArgGenReturns ==
    /\ spc = "task_arg_gen"
    /\ task_no >= n_gmfs
    /\ spc' = "done"
    /\ UNCHANGED <<random_seed, n_gmfs, rnd, task_no, tasks, np_seed, computed>>
    /\ UNCHANGED <<mergeVars, calcVars, reduceVars, runVars, genVars>>

\* a worker process runs the gmfs task of a yielded task (core.py 50-64):
\* numpy.random.seed(task_seed); compute_gmfs(...).  The tasks run in any
\* order, each one whole in its process.
RunGmfsTask(w, t) ==
    /\ spc \in {"task_arg_gen", "done"}
    /\ t \in 1..Len(tasks)
    /\ tasks[t].task_no \notin DOMAIN computed
    /\ np_seed' = [np_seed EXCEPT ![w] = tasks[t].task_seed]
    /\ computed' = [k \in (DOMAIN computed) \cup {tasks[t].task_no} |->
                       IF k = tasks[t].task_no THEN np_seed'[w] ELSE computed[k]]
    /\ UNCHANGED <<spc, random_seed, n_gmfs, rnd, task_no, tasks>>
    /\ UNCHANGED <<mergeVars, calcVars, reduceVars, runVars, genVars>>

\* calc_gmfs (calc.py 140-159): the seeds are drawn first, then the fields
\* are computed seed by seed, in the order of the list
CalcGmfs ==
    /\ spc = "calc_gmfs"
    /\ tasks' = SeedList(rnd, 0, NumGmfsOf(n_gmfs))
    /\ computed' = [k \in {tasks'[j].task_no : j \in 1..Len(tasks')} |->
                       tasks'[k + 1].task_seed]
    /\ spc' = "done"
    /\ UNCHANGED <<random_seed, n_gmfs, rnd, task_no, np_seed>>
    /\ UNCHANGED <<mergeVars, calcVars, reduceVars, runVars, genVars>>

NextSeeds ==
    \/ YieldTask
    \/ TaskArgGenReturns
    \/ \E w \in Workers : \E t \in 1..MaxGmfs : RunGmfsTask(w, t)
    \/ CalcGmfs

SpecSeeds == InitSeeds /\ [][NextSeeds]_vars

\* the seed of realization k: the draw number k + 1 of a generator seeded
\* with the configured seed; it is a function of the seed and of k only
RECURSIVE StateBefore(_, _)
StateBefore(seed, k) ==
    IF k = 0 THEN RngSeed(seed) ELSE RngNext(StateBefore(seed, k - 1))
SeedOfRealization(seed, k) == RngRandint(StateBefore(seed, k), 0, 2147483647)

====
